---- MODULE Spec2Model ----
(***************************************************************************)
(* Model of the crossword CSP solver of generate.py (CrosswordCreator):    *)
(* node consistency, revise, AC-3 and the backtracking search, run over    *)
(* small puzzles and small word sets.                                      *)
(*                                                                         *)
(* A word is a sequence of letters; letter k of the alphabet is the number *)
(* k, so that the order of the numbers is the order of the characters.     *)
(* Python indexes from 0, TLA+ from 1: word[x] of the code is w[x + 1].    *)
(***************************************************************************)
EXTENDS Naturals, Integers, Sequences, FiniteSets, TLC

\* ------------------------------------------------------------------ bounds
\* longest word of the vocabulary
MaxLen == 2
\* largest number of words in the word list handed to the solver
MaxWords == 3
\* the alphabet: 1 stands for "A", 2 for "B"
Letters == {1, 2}

\* ------------------------------------------------------- the puzzle model
\* Variable(i, j, direction, length): a slot of the grid
Variable(i, j, direction, length) ==
    [i |-> i, j |-> j, direction |-> direction, length |-> length]

\* Variable.cells: the cells of a slot, in order
cells(v) ==
    [k \in 1..v.length |->
        << v.i + (IF v.direction = "down" THEN k - 1 ELSE 0),
           v.j + (IF v.direction = "across" THEN k - 1 ELSE 0) >>]

\* the crossing map's entry for two slots that share no cell
None == << >>

\* Crossword.overlaps[v1, v2]: None, or <<ix, iy>> (0-based offsets) when
\* character ix of v1 is character iy of v2
overlaps(v1, v2) ==
    LET c1 == cells(v1)
        c2 == cells(v2)
        common == {p \in (DOMAIN c1) \X (DOMAIN c2) : c1[p[1]] = c2[p[2]]}
    IN  IF common = {} THEN None
        ELSE LET p == CHOOSE q \in common : TRUE IN << p[1] - 1, p[2] - 1 >>

\* Crossword.neighbors(var): the slots that cross var
neighbors(variables, var) ==
    {v \in variables : v # var /\ overlaps(v, var) # None}

\* The grids the solver is run on.
\*   no slot at all
\*   one slot                              two slots crossing at (0,0)
\*   two slots crossing at (1,0)           two slots crossing at (1,1)
\*   a path of three slots  A1 - D - A2    a fork  D1 - A - D2
\*   a slot of length three crossing a slot of length two
Puzzles ==
    { {},
      {Variable(0, 0, "across", 2)},
      {Variable(0, 0, "across", 2), Variable(0, 0, "down", 2)},
      {Variable(0, 0, "across", 2), Variable(0, 1, "down", 2)},
      {Variable(1, 0, "across", 2), Variable(0, 1, "down", 2)},
      {Variable(0, 0, "across", 2), Variable(0, 1, "down", 2),
       Variable(1, 1, "across", 2)},
      {Variable(0, 0, "across", 2), Variable(0, 0, "down", 2),
       Variable(0, 1, "down", 2)},
      {Variable(0, 0, "across", 3), Variable(0, 2, "down", 2)} }

\* every word of the vocabulary: the words of 1..MaxLen letters
Vocabulary == UNION {[1..n -> Letters] : n \in 1..MaxLen}

\* the word lists the solver is run on
WordLists == {ws \in SUBSET Vocabulary : Cardinality(ws) <= MaxWords}

\* ------------------------------------------------------------ sequences
\* all the orders in which the elements of a finite set can be enumerated
RECURSIVE Orders(_)
Orders(S) ==
    IF S = {} THEN {<< >>}
    ELSE UNION {{<<e>> \o t : t \in Orders(S \ {e})} : e \in S}

\* the elements of a sequence
Range(s) == {s[k] : k \in DOMAIN s}

\* Python's order of strings: a < b
StrLess(a, b) ==
    \/ \E k \in 1..Len(a) :
          /\ k <= Len(b)
          /\ \A m \in 1..(k - 1) : a[m] = b[m]
          /\ a[k] < b[k]
    \/ /\ Len(a) < Len(b)
       /\ \A m \in 1..Len(a) : a[m] = b[m]

\* sorted(S) for a set of strings
RECURSIVE Sorted(_)
Sorted(S) ==
    IF S = {} THEN << >>
    ELSE LET least == CHOOSE w \in S : \A u \in S \ {w} : StrLess(w, u)
         IN  <<least>> \o Sorted(S \ {least})

\* ------------------------------------------------------------------ state
VARIABLES
    crossword,   \* self.crossword: [variables, words], fixed after construction
    keys,        \* the order in which the dict self.domains enumerates its slots
    domains,     \* self.domains: slot -> set of candidate words
    pc,          \* where the caller of the solver stands
    queue,       \* the worklist of ac3, a list of arcs <<x, y>>
    args,        \* the arguments of a caller's own call of revise, ac3 or consistent
    ret,         \* what that call of revise or consistent returned
    ac3_ret,     \* what ac3 returned
    fault,       \* the exception that left the solver, "none" when none did
    stack,       \* the active calls of backtrack, innermost last
    returning,   \* the value a call of backtrack has just returned
    result       \* what solve returned

vars == << crossword, keys, domains, pc, queue, args, ret, ac3_ret,
           fault, stack, returning, result >>

\* a returned value: Python's None, or an assignment
NoneValue == [kind |-> "None", val |-> << >>]
Some(v) == [kind |-> "value", val |-> v]
\* no value has been returned yet
Nothing == [kind |-> "nothing", val |-> << >>]

\* no call of the caller's own has been made
NoCall == [call |-> "none"]

\* dict(): the assignment that binds no slot
EmptyAssignment == [v \in {} |-> << >>]

\* CrosswordCreator.__init__: each slot starts with a copy of the word list
InitialDomains(cw) == [v \in cw.variables |-> cw.words]

Init ==
    /\ \E vs \in Puzzles, ws \in WordLists :
          crossword = [variables |-> vs, words |-> ws]
    /\ keys \in Orders(crossword.variables)
    /\ domains = InitialDomains(crossword)
    /\ pc = "start"
    /\ queue = << >>
    /\ args = NoCall
    /\ ret = "unset"
    /\ ac3_ret = "unset"
    /\ fault = "none"
    /\ stack = << >>
    /\ returning = Nothing
    /\ result = Nothing

\* -------------------------------------------------------- node consistency
\* enforce_node_consistency with < for != : the words that are too short stay
NodeConsistent_keeps_short(doms) ==
    [v \in DOMAIN doms |-> {word \in doms[v] : Len(word) <= v.length}]

\* enforce_node_consistency: the domains with the words of the wrong length
\* removed
NodeConsistent(doms) ==
    [v \in DOMAIN doms |-> {word \in doms[v] : Len(word) = v.length}]

EnforceNodeConsistency ==
    /\ pc = "start"
    /\ domains' = NodeConsistent(domains)
    /\ pc' = "node_consistent"
    /\ UNCHANGED << crossword, keys, queue, args, ret, ac3_ret, fault,
                    stack, returning, result >>

\* ------------------------------------------------------------------ revise
\* revise that keeps a word of x only when every word of y agrees with it
revise_needs_all(doms, x, y) ==
    LET ov == overlaps(x, y) IN
    IF ov = None
    THEN [domains |-> doms, revised |-> FALSE, fault |-> "TypeError"]
    ELSE LET x_overlap == ov[1]
             y_overlap == ov[2]
             kept == {x_word \in doms[x] :
                        \A y_word \in doms[y] :
                           x_word[x_overlap + 1] = y_word[y_overlap + 1]}
         IN  IF x_overlap # 0
             THEN [domains |-> [doms EXCEPT ![x] = kept],
                   revised |-> kept # doms[x],
                   fault   |-> "none"]
             ELSE [domains |-> doms, revised |-> FALSE, fault |-> "none"]

\* revise with the test of line 150 inverted: the matched words are removed
revise_removes_matched(doms, x, y) ==
    LET ov == overlaps(x, y) IN
    IF ov = None
    THEN [domains |-> doms, revised |-> FALSE, fault |-> "TypeError"]
    ELSE LET x_overlap == ov[1]
             y_overlap == ov[2]
             kept == {x_word \in doms[x] :
                        ~ \E y_word \in doms[y] :
                             x_word[x_overlap + 1] = y_word[y_overlap + 1]}
         IN  IF x_overlap # 0
             THEN [domains |-> [doms EXCEPT ![x] = kept],
                   revised |-> kept # doms[x],
                   fault   |-> "none"]
             ELSE [domains |-> doms, revised |-> FALSE, fault |-> "none"]

\* revise(x, y), for two different slots: the domains it leaves, the value it
\* returns, and the exception it raises.  Unpacking the crossing map's None
\* raises TypeError before any domain is touched.  The offset 0 is false in
\* the test of line 137, so an arc whose x offset is 0 is left alone.  Every
\* call is made on node-consistent domains, where the offsets lie inside the
\* words.
revise(doms, x, y) ==
    LET ov == overlaps(x, y) IN
    IF ov = None
    THEN [domains |-> doms, revised |-> FALSE, fault |-> "TypeError"]
    ELSE LET x_overlap == ov[1]
             y_overlap == ov[2]
             kept == {x_word \in doms[x] :
                        \E y_word \in doms[y] :
                           x_word[x_overlap + 1] = y_word[y_overlap + 1]}
         IN  IF x_overlap # 0
             THEN [domains |-> [doms EXCEPT ![x] = kept],
                   revised |-> kept # doms[x],
                   fault   |-> "none"]
             ELSE [domains |-> doms, revised |-> FALSE, fault |-> "none"]

\* "True" / "False" of a returned boolean
PyBool(b) == IF b THEN "True" ELSE "False"

\* a caller calls revise(x, y) itself, on node-consistent domains
ReviseCall(x, y) ==
    /\ pc = "node_consistent"
    /\ x # y
    /\ LET r == revise(domains, x, y) IN
          /\ domains' = r.domains
          /\ fault' = r.fault
          /\ ret' = IF r.fault = "none" THEN PyBool(r.revised) ELSE "unset"
          /\ pc' = IF r.fault = "none" THEN "revised" ELSE "fault"
    /\ args' = [call |-> "revise", x |-> x, y |-> y]
    /\ UNCHANGED << crossword, keys, queue, ac3_ret, stack, returning, result >>

\* --------------------------------------------------------------------- ac3
\* the arcs of one slot, in each order its set of neighbours can be enumerated
ArcsFrom(variables, var_1) ==
    {[k \in DOMAIN o |-> << var_1, o[k] >>] : o \in Orders(neighbors(variables, var_1))}

\* the initial worklists of ac3(): the arcs of each slot, slot by slot in the
\* order of self.domains
RECURSIVE InitialQueues(_, _)
InitialQueues(variables, ks) ==
    IF ks = << >> THEN {<< >>}
    ELSE {h \o t : h \in ArcsFrom(variables, Head(ks)),
                   t \in InitialQueues(variables, Tail(ks))}

\* ac3() as solve calls it, arcs = None: lines 170-175
Ac3Call ==
    /\ pc = "node_consistent"
    /\ queue' \in InitialQueues(crossword.variables, keys)
    /\ pc' = "ac3"
    /\ UNCHANGED << crossword, keys, domains, args, ret, ac3_ret, fault,
                    stack, returning, result >>

\* ac3(arcs) with a list of arcs: queue is never bound, and the loop's test
\* raises UnboundLocalError
Ac3CallArcs(arcs) ==
    /\ pc = "node_consistent"
    /\ args' = [call |-> "ac3", arcs |-> arcs]
    /\ fault' = "UnboundLocalError"
    /\ pc' = "fault"
    /\ UNCHANGED << crossword, keys, domains, queue, ret, ac3_ret,
                    stack, returning, result >>

\* ac3 without the loop of lines 193-195: nothing is appended
Requeued_nothing(variables, x, y) == {<< >>}

\* the arcs (neighbor, x) appended after x's domain shrank, neighbor # y
Requeued(variables, x, y) ==
    {[k \in DOMAIN o |-> << o[k], x >>] :
        o \in Orders(neighbors(variables, x) \ {y})}

\* the body of the loop of ac3, lines 180-195, for the arc taken from place k
\* of the worklist
Ac3StepAt(k) ==
    /\ pc = "ac3"
    /\ k \in DOMAIN queue
    /\ LET arc  == queue[k]
           rest == SubSeq(queue, 1, k - 1) \o SubSeq(queue, k + 1, Len(queue))
           x    == arc[1]
           y    == arc[2]
           r    == revise(domains, x, y)
       IN  /\ domains' = r.domains
           /\ IF r.revised /\ r.domains[x] = {}
              THEN /\ ac3_ret' = "False"
                   /\ pc' = "ac3_done"
                   /\ queue' = rest
              ELSE /\ ac3_ret' = ac3_ret
                   /\ pc' = pc
                   /\ IF r.revised
                      THEN \E more \in Requeued(crossword.variables, x, y) :
                              queue' = rest \o more
                      ELSE queue' = rest
    /\ UNCHANGED << crossword, keys, args, ret, fault, stack, returning,
                    result >>

\* one turn of the loop of ac3, lines 178-195: queue.pop() takes the last arc
Ac3Step ==
    /\ queue # << >>
    /\ Ac3StepAt(Len(queue))

\* the worklist is empty: line 198
Ac3Return ==
    /\ pc = "ac3"
    /\ queue = << >>
    /\ ac3_ret' = "True"
    /\ pc' = "ac3_done"
    /\ UNCHANGED << crossword, keys, domains, queue, args, ret, fault,
                    stack, returning, result >>

\* ------------------------------------------------------------------ search
\* consistent without the test of the crossings
consistent_no_crossings(variables, assignment) ==
    LET bound == DOMAIN assignment IN
    /\ \A var \in bound :
          Cardinality({u \in bound : assignment[u] = assignment[var]}) <= 1
    /\ \A var \in bound : var.length = Len(assignment[var])

\* consistent without the test that the words are distinct
consistent_no_distinct(variables, assignment) ==
    LET bound == DOMAIN assignment IN
    /\ \A var \in bound : var.length = Len(assignment[var])
    /\ \A var \in bound :
          \A neighbor \in neighbors(variables, var) :
             neighbor \in bound =>
                LET ov == overlaps(var, neighbor) IN
                assignment[var][ov[1] + 1] = assignment[neighbor][ov[2] + 1]

\* consistent(assignment): lines 223-244
consistent(variables, assignment) ==
    LET bound == DOMAIN assignment IN
    /\ \A var \in bound :
          Cardinality({u \in bound : assignment[u] = assignment[var]}) <= 1
    /\ \A var \in bound : var.length = Len(assignment[var])
    /\ \A var \in bound :
          \A neighbor \in neighbors(variables, var) :
             neighbor \in bound =>
                LET ov == overlaps(var, neighbor) IN
                assignment[var][ov[1] + 1] = assignment[neighbor][ov[2] + 1]

\* order_domain_values, lines 256-266: the count the loop computes for a word
eliminated(variables, doms, var, assignment, word) ==
    LET open == neighbors(variables, var) \ DOMAIN assignment
        ruled(neighbor) ==
            LET ov == overlaps(var, neighbor) IN
            Cardinality({neighbor_word \in doms[neighbor] :
                            word[ov[1] + 1] # neighbor_word[ov[2] + 1]})
        RECURSIVE total(_)
        total(S) == IF S = {} THEN 0
                    ELSE LET n == CHOOSE m \in S : TRUE
                         IN  ruled(n) + total(S \ {n})
    IN  total(open)

\* order_domain_values without the sort: the words as the set enumerates
\* them, here last word first
order_domain_values_unsorted(variables, doms, var, assignment) ==
    LET up == Sorted(doms[var])
    IN  [k \in DOMAIN up |-> up[Len(up) + 1 - k]]

\* order_domain_values(var, assignment): the dict word -> count is sorted,
\* which sorts its keys
order_domain_values(variables, doms, var, assignment) ==
    LET ordered_values ==
            [word \in doms[var] |->
                eliminated(variables, doms, var, assignment, word)]
    IN  Sorted(DOMAIN ordered_values)

\* select_unassigned_variable without the sort: the first open slot
select_first_unassigned(ks, doms, assignment) ==
    LET open == {k \in DOMAIN ks : ks[k] \notin DOMAIN assignment}
        first == CHOOSE k \in open : \A m \in open : k <= m
    IN  ks[first]

\* select_unassigned_variable with the sort reversed: the largest domain
select_largest_domain(ks, doms, assignment) ==
    LET open == {k \in DOMAIN ks : ks[k] \notin DOMAIN assignment}
        first == CHOOSE k \in open :
                    \A m \in open \ {k} :
                       \/ Cardinality(doms[ks[k]]) > Cardinality(doms[ks[m]])
                       \/ /\ Cardinality(doms[ks[k]]) = Cardinality(doms[ks[m]])
                          /\ k < m
    IN  ks[first]

\* select_unassigned_variable(assignment): the stable sort by domain size puts
\* first the earliest slot of self.domains among the smallest domains
select_unassigned_variable(ks, doms, assignment) ==
    LET open == {k \in DOMAIN ks : ks[k] \notin DOMAIN assignment}
        first == CHOOSE k \in open :
                    \A m \in open \ {k} :
                       \/ Cardinality(doms[ks[k]]) < Cardinality(doms[ks[m]])
                       \/ /\ Cardinality(doms[ks[k]]) = Cardinality(doms[ks[m]])
                          /\ k < m
    IN  ks[first]

\* assignment_copy of lines 311-312
Extend(assignment, var, value) ==
    [v \in DOMAIN assignment \cup {var} |->
        IF v = var THEN value ELSE assignment[v]]

\* the frame of backtrack(assignment) once it reaches its loop (lines 307-309)
Frame(assignment) ==
    LET var == select_unassigned_variable(keys, domains, assignment) IN
    [assignment |-> assignment,
     var        |-> var,
     values     |-> order_domain_values(crossword.variables, domains, var,
                                        assignment)]

\* backtrack called without the copy of line 311: the caller's assignment is
\* the dict the callee was given
Enter_shares(callers, assignment) ==
    LET shared == IF callers = << >> THEN callers
                  ELSE [callers EXCEPT ![Len(callers)].assignment = assignment]
    IN  IF Cardinality(DOMAIN assignment) = Cardinality(DOMAIN domains)
        THEN /\ returning' = Some(assignment)
             /\ stack' = shared
        ELSE /\ returning' = Nothing
             /\ stack' = Append(shared, Frame(assignment))

\* backtrack(assignment) is called with the calls of callers active: it
\* returns at once when the assignment is complete (lines 304-305), and
\* otherwise starts its loop
Enter(callers, assignment) ==
    IF Cardinality(DOMAIN assignment) = Cardinality(DOMAIN domains)
    THEN /\ returning' = Some(assignment)
         /\ stack' = callers
    ELSE /\ returning' = Nothing
         /\ stack' = Append(callers, Frame(assignment))

\* solve, line 95: backtrack(dict()), whatever ac3 returned
BacktrackCall ==
    /\ pc = "ac3_done"
    /\ pc' = "backtrack"
    /\ Enter(stack, EmptyAssignment)
    /\ UNCHANGED << crossword, keys, domains, queue, args, ret, ac3_ret,
                    fault, result >>

Top == stack[Len(stack)]
Pop == SubSeq(stack, 1, Len(stack) - 1)

\* the loop of backtrack removing each word it tries from the slot's domain
BacktrackTry_prunes ==
    /\ pc = "backtrack"
    /\ returning = Nothing
    /\ stack # << >>
    /\ Top.values # << >>
    /\ LET value == Head(Top.values)
           assignment_copy == Extend(Top.assignment, Top.var, value)
           advanced == [stack EXCEPT ![Len(stack)].values = Tail(Top.values)]
       IN  /\ domains' = [domains EXCEPT ![Top.var] = @ \ {value}]
           /\ IF consistent(crossword.variables, assignment_copy)
              THEN Enter(advanced, assignment_copy)
              ELSE /\ returning' = Nothing
                   /\ stack' = advanced
    /\ UNCHANGED << crossword, keys, pc, queue, args, ret, ac3_ret, fault,
                    result >>

\* one turn of the loop of backtrack: lines 309-315
BacktrackTry ==
    /\ pc = "backtrack"
    /\ returning = Nothing
    /\ stack # << >>
    /\ Top.values # << >>
    /\ LET value == Head(Top.values)
           assignment_copy == Extend(Top.assignment, Top.var, value)
           advanced == [stack EXCEPT ![Len(stack)].values = Tail(Top.values)]
       IN  IF consistent(crossword.variables, assignment_copy)
           THEN Enter(advanced, assignment_copy)
           ELSE /\ returning' = Nothing
                /\ stack' = advanced
    /\ UNCHANGED << crossword, keys, domains, pc, queue, args, ret,
                    ac3_ret, fault, result >>

\* the loop has no candidate left: line 319
BacktrackFail ==
    /\ pc = "backtrack"
    /\ returning = Nothing
    /\ stack # << >>
    /\ Top.values = << >>
    /\ returning' = NoneValue
    /\ stack' = Pop
    /\ UNCHANGED << crossword, keys, domains, pc, queue, args, ret,
                    ac3_ret, fault, result >>

\* backtrack starting its loop again from the first word when a recursive
\* call returns None
BacktrackResume_restarts ==
    /\ pc = "backtrack"
    /\ returning # Nothing
    /\ stack # << >>
    /\ IF returning.kind = "value"
       THEN /\ returning' = returning
            /\ stack' = Pop
       ELSE /\ returning' = Nothing
            /\ stack' = [stack EXCEPT ![Len(stack)] = Frame(Top.assignment)]
    /\ UNCHANGED << crossword, keys, domains, pc, queue, args, ret,
                    ac3_ret, fault, result >>

\* the recursive call has returned: lines 315-317
BacktrackResume ==
    /\ pc = "backtrack"
    /\ returning # Nothing
    /\ stack # << >>
    /\ IF returning.kind = "value"
       THEN /\ returning' = returning
            /\ stack' = Pop
       ELSE /\ returning' = Nothing
            /\ stack' = stack
    /\ UNCHANGED << crossword, keys, domains, pc, queue, args, ret,
                    ac3_ret, fault, result >>

\* solve returns what the outermost backtrack returned: line 95
SolveReturn ==
    /\ pc = "backtrack"
    /\ returning # Nothing
    /\ stack = << >>
    /\ result' = returning
    /\ returning' = Nothing
    /\ pc' = "done"
    /\ UNCHANGED << crossword, keys, domains, queue, args, ret, ac3_ret,
                    fault, stack >>

\* the lists of arcs a caller hands to ac3: the empty list, or one arc
SomeArcs ==
    {<< >>} \cup {<< arc >> : arc \in {p \in crossword.variables \X crossword.variables :
                                          p[1] # p[2]}}

Next ==
    \/ EnforceNodeConsistency
    \/ \E x \in crossword.variables, y \in crossword.variables : ReviseCall(x, y)
    \/ Ac3Call
    \/ \E arcs \in SomeArcs : Ac3CallArcs(arcs)
    \/ Ac3Step
    \/ Ac3Return
    \/ BacktrackCall
    \/ BacktrackTry
    \/ BacktrackFail
    \/ BacktrackResume
    \/ SolveReturn

Spec == Init /\ [][Next]_vars

\* ------------------------------------------------- a wider alphabet
\* Word lists over three letters, "A", "B" and "C": the words of two letters
\* and the word "A".  Over three letters the removal of a word from one domain
\* can take the support of a word of a third slot away.
WideLetters == {1, 2, 3}

WideWordLists ==
    {ws \in SUBSET ([1..2 -> WideLetters] \cup {<<1>>}) : Cardinality(ws) <= MaxWords}

InitWide ==
    /\ \E vs \in Puzzles, ws \in WideWordLists :
          crossword = [variables |-> vs, words |-> ws]
    /\ keys \in Orders(crossword.variables)
    /\ domains = InitialDomains(crossword)
    /\ pc = "start"
    /\ queue = << >>
    /\ args = NoCall
    /\ ret = "unset"
    /\ ac3_ret = "unset"
    /\ fault = "none"
    /\ stack = << >>
    /\ returning = Nothing
    /\ result = Nothing

SpecWide == InitWide /\ [][Next]_vars

\* ------------------------------------------------------- solve, run to its end
\* the steps of a call of solve
NextSolve ==
    \/ EnforceNodeConsistency
    \/ Ac3Call
    \/ Ac3Step
    \/ Ac3Return
    \/ BacktrackCall
    \/ BacktrackTry
    \/ BacktrackFail
    \/ BacktrackResume
    \/ SolveReturn

\* weak fairness of Ac3Step, with its enabling condition written out: the loop
\* of ac3 takes a turn exactly when the worklist holds an arc
Ac3StepFair ==
    \/ []<>(~ (pc = "ac3" /\ queue # << >>))
    \/ []<><<Ac3Step>>_vars

\* weak fairness of BacktrackCall, with its enabling condition written out:
\* the call of line 95 can be made exactly when ac3 has returned
BacktrackCallFair ==
    \/ []<>(pc # "ac3_done")
    \/ []<><<BacktrackCall>>_vars

\* weak fairness of BacktrackTry, with its enabling condition written out: a
\* turn of the loop can be taken exactly when the call on top has a word left
BacktrackTryFair ==
    \/ []<>(~ (/\ pc = "backtrack"
               /\ returning = Nothing
               /\ stack # << >>
               /\ Top.values # << >>))
    \/ []<><<BacktrackTry>>_vars

\* solve runs on one thread that nothing suspends: while it has a step to
\* take, it takes it
SpecSolve ==
    /\ InitWide
    /\ [][NextSolve]_vars
    /\ WF_vars(EnforceNodeConsistency)
    /\ WF_vars(Ac3Call)
    /\ Ac3StepFair
    /\ WF_vars(Ac3Return)
    /\ BacktrackCallFair
    /\ BacktrackTryFair
    /\ WF_vars(BacktrackFail)
    /\ WF_vars(BacktrackResume)
    /\ WF_vars(SolveReturn)

\* ------------------------------------------------- the steps that prune
\* enforce_node_consistency, revise called on its own, and ac3
NextPrune ==
    \/ EnforceNodeConsistency
    \/ \E x \in crossword.variables, y \in crossword.variables : ReviseCall(x, y)
    \/ Ac3Call
    \/ Ac3Step
    \/ Ac3Return

SpecPrune == InitWide /\ [][NextPrune]_vars

\* ----------------------------------------- ac3 with any order of extraction
\* the worklist of ac3 worked in any order: the arc is taken from any place
Ac3StepAny == \E k \in DOMAIN queue : Ac3StepAt(k)

NextAnyOrder ==
    \/ EnforceNodeConsistency
    \/ Ac3Call
    \/ Ac3StepAny
    \/ Ac3Return

SpecAnyOrder == InitWide /\ [][NextAnyOrder]_vars

\* ------------------------------------------- consistent, called on its own
\* the assignments a caller hands to consistent: some of the slots, each bound
\* to a word of the word list, of any length
PartialAssignments ==
    UNION {[bound -> crossword.words] : bound \in SUBSET crossword.variables}

\* a caller calls consistent(assignment) itself
ConsistentCall(assignment) ==
    /\ pc = "start"
    /\ args' = [call |-> "consistent", assignment |-> assignment]
    /\ ret' = PyBool(consistent(crossword.variables, assignment))
    /\ pc' = "checked"
    /\ UNCHANGED << crossword, keys, domains, queue, ac3_ret, fault, stack,
                    returning, result >>

\* the solver as constructed; consistent does not read the order of the slots
InitConsistent ==
    /\ \E vs \in Puzzles, ws \in WordLists :
          crossword = [variables |-> vs, words |-> ws]
    /\ keys = CHOOSE o \in Orders(crossword.variables) : TRUE
    /\ domains = InitialDomains(crossword)
    /\ pc = "start"
    /\ queue = << >>
    /\ args = NoCall
    /\ ret = "unset"
    /\ ac3_ret = "unset"
    /\ fault = "none"
    /\ stack = << >>
    /\ returning = Nothing
    /\ result = Nothing

NextConsistent == \E assignment \in PartialAssignments : ConsistentCall(assignment)

SpecConsistent == InitConsistent /\ [][NextConsistent]_vars

\* ------------------------------------------------------------ the claims
\* the constraints of the puzzle, stated on an assignment
AllDistinct(a) ==
    \A u \in DOMAIN a : \A v \in DOMAIN a : u # v => a[u] # a[v]

LengthsFit(a) == \A v \in DOMAIN a : Len(a[v]) = v.length

CrossingsAgree(a) ==
    \A u \in DOMAIN a : \A v \in DOMAIN a :
       (u # v /\ overlaps(u, v) # None) =>
          a[u][overlaps(u, v)[1] + 1] = a[v][overlaps(u, v)[2] + 1]

\* a complete assignment that satisfies every constraint
IsSolution(a) ==
    /\ DOMAIN a = crossword.variables
    /\ LengthsFit(a)
    /\ AllDistinct(a)
    /\ CrossingsAgree(a)

\* the puzzle has a solution over the original word list
Satisfiable ==
    \E a \in [crossword.variables -> crossword.words] : IsSolution(a)

\* C1 soundness: an assignment returned by solve binds every slot, is accepted
\* by consistent, and has distinct words of the slots' lengths that agree at
\* every crossing.
C1_Soundness ==
    (pc = "done" /\ result.kind = "value") =>
        /\ IsSolution(result.val)
        /\ consistent(crossword.variables, result.val)

\* solve has returned an assignment of a puzzle of three slots
C1_Witness ==
    /\ pc = "done"
    /\ result.kind = "value"
    /\ Cardinality(crossword.variables) = 3

\* C2 completeness: when some complete assignment over the original word list
\* satisfies every constraint, solve returns an assignment and not None.
C2_Completeness ==
    (pc = "done" /\ Satisfiable) => result.kind = "value"

\* solve has returned for a satisfiable puzzle after ac3 removed a word from a
\* domain
C2_Witness ==
    /\ pc = "done"
    /\ Satisfiable
    /\ domains # NodeConsistent(InitialDomains(crossword))

\* C3 unsatisfiability detection: after ac3 has returned False, solve returns
\* None and the backtracking search is never started.
C3_NoSearchAfterFailedAc3 ==
    /\ ac3_ret = "False" => (pc # "backtrack" /\ stack = << >>)
    /\ (ac3_ret = "False" /\ pc = "done") => result = NoneValue

\* C3 as amended: after ac3 has returned False, solve does call backtrack, but
\* the search binds no slot: its only call is the outermost one, on the empty
\* assignment, with no candidate to try, and solve returns None.
C3_FailedAc3BindsNothing ==
    ac3_ret = "False" =>
        /\ Len(stack) <= 1
        /\ \A k \in DOMAIN stack :
              stack[k].assignment = EmptyAssignment /\ stack[k].values = << >>
        /\ returning.kind # "value"
        /\ pc = "done" => result = NoneValue

\* solve has returned after ac3 returned False on a puzzle of three slots
C3_Witness ==
    /\ pc = "done"
    /\ ac3_ret = "False"
    /\ Cardinality(crossword.variables) = 3

\* C4 arc consistency: after ac3 has returned True, every word of every slot
\* has a word of each crossing slot that agrees with it at the crossing,
\* crossings at offset 0 included.
C4_ArcConsistent ==
    (pc = "ac3_done" /\ ac3_ret = "True") =>
        \A x \in crossword.variables : \A y \in neighbors(crossword.variables, x) :
           \A wx \in domains[x] : \E wy \in domains[y] :
              wx[overlaps(x, y)[1] + 1] = wy[overlaps(x, y)[2] + 1]

\* the words that a word of var rules out among the candidates of the slots
\* crossing var that the assignment leaves open
RuledOut(var, assignment, word) ==
    Cardinality(
        {p \in (neighbors(crossword.variables, var) \ DOMAIN assignment) \X crossword.words :
            /\ p[2] \in domains[p[1]]
            /\ word[overlaps(var, p[1])[1] + 1] # p[2][overlaps(var, p[1])[2] + 1]})

\* vals lists the domain of var once each, fewest ruled-out words first, and
\* in the order of the words where the counts are equal
IsLeastConstrainingOrder(vals, var, assignment) ==
    /\ Range(vals) = domains[var]
    /\ Len(vals) = Cardinality(domains[var])
    /\ \A m \in DOMAIN vals : \A n \in DOMAIN vals :
          m < n =>
             LET cm == RuledOut(var, assignment, vals[m])
                 cn == RuledOut(var, assignment, vals[n])
             IN  cm < cn \/ (cm = cn /\ StrLess(vals[m], vals[n]))

\* C5 least-constraining-value order: for the slot and the partial assignment
\* of every active call of backtrack, order_domain_values lists the slot's
\* domain by ascending count of ruled-out neighbour words, ties in word order.
C5_LeastConstrainingOrder ==
    pc = "backtrack" =>
        \A k \in DOMAIN stack :
           IsLeastConstrainingOrder(
               order_domain_values(crossword.variables, domains, stack[k].var,
                                   stack[k].assignment),
               stack[k].var, stack[k].assignment)

\* C6 revise on a pair that does not cross: revise(x, y) returns False, raises
\* nothing and leaves the domains as they were.
C6_ReviseNonCrossing ==
    (args.call = "revise" /\ overlaps(args.x, args.y) = None) =>
        /\ fault = "none"
        /\ ret = "False"
        /\ domains = NodeConsistent(InitialDomains(crossword))

\* C7 the value of ac3: True only with no domain empty, False whenever some
\* domain is empty, a domain emptied before ac3 started included.
C7_Ac3ReturnValue ==
    pc = "ac3_done" =>
        /\ ac3_ret = "True" => \A v \in crossword.variables : domains[v] # {}
        /\ (\E v \in crossword.variables : domains[v] = {}) => ac3_ret = "False"

\* C8 consistent is exact: it returns True exactly for the assignments whose
\* words are pairwise distinct, have their slots' lengths and agree at the
\* crossings of the slots bound.
C8_ConsistentExact ==
    args.call = "consistent" =>
        (ret = "True" <=>
            /\ AllDistinct(args.assignment)
            /\ LengthsFit(args.assignment)
            /\ CrossingsAgree(args.assignment))

\* consistent has rejected an assignment that binds two slots to the same word
\* although the lengths fit and no letters conflict
C8_Witness ==
    /\ args.call = "consistent"
    /\ ret = "False"
    /\ ~AllDistinct(args.assignment)
    /\ LengthsFit(args.assignment)
    /\ CrossingsAgree(args.assignment)

\* C9 node consistency: right after enforce_node_consistency each domain is
\* the words of the word list of the slot's length, and from then on every
\* word of every domain has its slot's length.
C9_NodeConsistency ==
    /\ pc = "node_consistent" =>
          \A v \in crossword.variables :
             domains[v] = {w \in crossword.words : Len(w) = v.length}
    /\ pc # "start" =>
          \A v \in crossword.variables : \A w \in domains[v] : Len(w) = v.length

\* ac3 has finished after node consistency removed a word of the wrong length
\* from a domain and left it a word of the right length
C9_Witness ==
    /\ pc = "ac3_done"
    /\ \E v \in crossword.variables :
          /\ domains[v] # {}
          /\ \E w \in crossword.words : Len(w) # v.length

\* C10 ac3 with a list of arcs: the call raises nothing, works the arcs it was
\* given and returns True or False.
C10_Ac3WithArcs ==
    args.call = "ac3" =>
        /\ fault = "none"
        /\ (pc = "ac3" \/ (pc = "ac3_done" /\ ac3_ret \in {"True", "False"}))

\* the slots a partial assignment leaves open
Unassigned(assignment) == crossword.variables \ DOMAIN assignment

\* C11 minimum remaining values: the slot that select_unassigned_variable
\* chose for an active call of backtrack is one slot of the puzzle, is not
\* bound by the call's assignment, and no open slot has a smaller domain.
C11_MinimumRemainingValues ==
    \A k \in DOMAIN stack :
       /\ stack[k].var \in Unassigned(stack[k].assignment)
       /\ \A u \in Unassigned(stack[k].assignment) :
             Cardinality(domains[stack[k].var]) <= Cardinality(domains[u])

\* a call of backtrack chose a slot that is not the first open slot of
\* self.domains, because an earlier one has a larger domain
C11_Witness ==
    \E k \in DOMAIN stack : \E m \in DOMAIN keys :
       /\ keys[m] \in Unassigned(stack[k].assignment)
       /\ \E n \in DOMAIN keys : n > m /\ keys[n] = stack[k].var
       /\ Cardinality(domains[keys[m]]) > Cardinality(domains[stack[k].var])

\* some slot has no word of its length in the word list
SomeSlotWithoutWord ==
    \E v \in crossword.variables : \A w \in crossword.words : Len(w) # v.length

\* C12 empty domain after node consistency: solve returns None and the search
\* binds no slot, the outermost call of backtrack having no candidate to try,
\* whatever ac3 returned.
C12_EmptyDomainBindsNothing ==
    SomeSlotWithoutWord =>
        /\ Len(stack) <= 1
        /\ \A k \in DOMAIN stack :
              stack[k].assignment = EmptyAssignment /\ stack[k].values = << >>
        /\ returning.kind # "value"
        /\ pc = "done" => result = NoneValue

\* solve has returned, after ac3 returned True, for a puzzle with a slot that
\* no word fits and another slot that a word fits
C12_Witness ==
    /\ pc = "done"
    /\ ac3_ret = "True"
    /\ SomeSlotWithoutWord
    /\ \E v \in crossword.variables : domains[v] # {}

\* the number of slots crossing a slot
Degree(v) == Cardinality(neighbors(crossword.variables, v))

\* C14 degree tie-break: among the open slots with the fewest remaining words,
\* the slot chosen for a call of backtrack has the highest degree.
C14_DegreeTieBreak ==
    \A k \in DOMAIN stack :
       \A u \in Unassigned(stack[k].assignment) :
          Cardinality(domains[u]) = Cardinality(domains[stack[k].var])
             => Degree(u) <= Degree(stack[k].var)

\* the words of a slot's length in the word list: its domain when a caller
\* calls revise
LengthDomain(v) == {w \in crossword.words : Len(w) = v.length}

\* the words of x that some word of y agrees with at the crossing
Supported(x, y) ==
    {wx \in LengthDomain(x) :
        \E wy \in LengthDomain(y) :
           wx[overlaps(x, y)[1] + 1] = wy[overlaps(x, y)[2] + 1]}

\* C15 revise is exact: after revise(x, y) on crossing slots, whatever the
\* offsets, the domain of x is its words that a word of y supports, and the
\* value returned is True exactly when a word was removed.
C15_ReviseExact ==
    (args.call = "revise" /\ overlaps(args.x, args.y) # None) =>
        /\ domains[args.x] = Supported(args.x, args.y)
        /\ ret = "True" <=> domains[args.x] # LengthDomain(args.x)
        /\ \A v \in crossword.variables \ {args.x} : domains[v] = LengthDomain(v)

\* ---- what a run computes, as a function of the puzzle, the word list and
\* ---- the order of the slots alone
\* the arcs that revise works on: those whose first offset is not 0
WorkedArcs ==
    {p \in crossword.variables \X crossword.variables :
        /\ p[1] # p[2]
        /\ overlaps(p[1], p[2]) # None
        /\ overlaps(p[1], p[2])[1] # 0}

\* one round of removals: the words with a supporting word on every worked arc
PruneOnce(doms) ==
    [x \in DOMAIN doms |->
        {wx \in doms[x] :
            \A p \in WorkedArcs :
               p[1] = x =>
                  \E wy \in doms[p[2]] :
                     wx[overlaps(x, p[2])[1] + 1] = wy[overlaps(x, p[2])[2] + 1]}]

\* the largest domains inside doms that are consistent on every worked arc
RECURSIVE Fixpoint(_)
Fixpoint(doms) ==
    IF PruneOnce(doms) = doms THEN doms ELSE Fixpoint(PruneOnce(doms))

\* the domains from which that fixpoint is taken
PrunedDomains == Fixpoint([v \in crossword.variables |-> LengthDomain(v)])

\* ac3 empties a domain exactly when the fixpoint empties one that had a word
ExpectedAc3 ==
    IF \E v \in crossword.variables : PrunedDomains[v] = {} /\ LengthDomain(v) # {}
    THEN "False" ELSE "True"

\* the first open slot, in the order of the slots, among the smallest domains
FirstSmallest(doms, assignment) ==
    LET open == {k \in DOMAIN keys : keys[k] \notin DOMAIN assignment}
        k0 == CHOOSE k \in open :
                 /\ \A m \in open :
                       Cardinality(doms[keys[k]]) <= Cardinality(doms[keys[m]])
                 /\ \A m \in open :
                       Cardinality(doms[keys[m]]) = Cardinality(doms[keys[k]])
                          => k <= m
    IN  keys[k0]

\* the depth-first search over doms: the slots by FirstSmallest, the words of
\* a slot in the order of the words
RECURSIVE Search(_, _), TryWords(_, _, _, _)
Search(doms, a) ==
    IF DOMAIN a = crossword.variables THEN Some(a)
    ELSE LET var == FirstSmallest(doms, a)
         IN  TryWords(doms, a, var, Sorted(doms[var]))

TryWords(doms, a, var, words) ==
    IF words = << >> THEN NoneValue
    ELSE LET b == [v \in DOMAIN a \cup {var} |->
                      IF v = var THEN Head(words) ELSE a[v]]
             r == IF AllDistinct(b) /\ LengthsFit(b) /\ CrossingsAgree(b)
                  THEN Search(doms, b) ELSE NoneValue
         IN  IF r.kind = "value" THEN r ELSE TryWords(doms, a, var, Tail(words))

\* the one result of the puzzle, the word list and the order of the slots
ExpectedResult ==
    IF \E v \in crossword.variables : PrunedDomains[v] = {}
    THEN NoneValue
    ELSE Search(PrunedDomains, EmptyAssignment)

\* C13 determinism: what solve returns is fixed by the puzzle, the word list
\* and the order in which the slots are enumerated: every run returns the one
\* result ExpectedResult, whichever order the sets of neighbours are
\* enumerated in.
C13_Determinism ==
    pc = "done" => result = ExpectedResult

\* solve has returned an assignment of a puzzle of three slots whose word list
\* leaves a choice: two complete assignments or more are solutions
C13_Witness ==
    /\ pc = "done"
    /\ result.kind = "value"
    /\ Cardinality(crossword.variables) = 3
    /\ Cardinality({a \in [crossword.variables -> crossword.words] : IsSolution(a)}) >= 2

\* C17 order independence of ac3: with the arcs taken from the worklist in any
\* order, ac3 returns the same value, and when it returns True it leaves the
\* same domains, as in every other order, the code's pop from the end
\* included.
C17_OrderIndependence ==
    pc = "ac3_done" =>
        /\ ac3_ret = ExpectedAc3
        /\ ac3_ret = "True" => domains = PrunedDomains

\* ac3 has returned True with a word removed from the domain of a slot that
\* crosses two others and a word removed from the domain of one of those
C17_Witness ==
    /\ pc = "ac3_done"
    /\ ac3_ret = "True"
    /\ \E v \in crossword.variables :
          /\ Degree(v) = 2
          /\ domains[v] # LengthDomain(v)
          /\ \E u \in neighbors(crossword.variables, v) : domains[u] # LengthDomain(u)

\* C20 pruning preserves solutions: in every state, each word of each complete
\* assignment that satisfies all constraints over the original word list is
\* still in the domain of its slot.
C20_PruningPreservesSolutions ==
    \A a \in [crossword.variables -> crossword.words] :
       IsSolution(a) => \A v \in crossword.variables : a[v] \in domains[v]

\* ac3 has removed a word from a domain of a satisfiable puzzle of three slots
C20_Witness ==
    /\ pc = "ac3_done"
    /\ Satisfiable
    /\ Cardinality(crossword.variables) = 3
    /\ \E v \in crossword.variables : domains[v] # LengthDomain(v)

\* C16 termination: solve terminates: ac3 returns, with its worklist empty or
\* with False, and then the search ends, complete with an assignment or
\* exhausted with None, and solve returns.
C16_Termination ==
    /\ <>(pc = "ac3_done" /\ (ac3_ret = "False" \/ queue = << >>))
    /\ <>(pc = "done" /\ result.kind \in {"value", "None"})

\* solve has returned None for a puzzle of three slots after ac3 returned True
\* and the search went three calls deep: every branch was tried
C16_Witness ==
    /\ pc = "done"
    /\ result.kind = "None"
    /\ ac3_ret = "True"
    /\ Cardinality(crossword.variables) = 3
    /\ \A v \in crossword.variables : Cardinality(domains[v]) >= 2

\* C18 the search leaves the domains alone: no step changes a domain once ac3
\* has returned, so the domains at the return of backtrack are those at its
\* entry, and no step of the whole solve adds a word to a domain.
C18_SearchKeepsDomains ==
    [][ /\ \A v \in crossword.variables : domains'[v] \subseteq domains[v]
        /\ pc \in {"ac3_done", "backtrack"} => domains' = domains ]_vars

\* three calls of backtrack are active, over domains that lost a word
C18_Witness ==
    /\ pc = "backtrack"
    /\ Len(stack) = 3
    /\ domains # InitialDomains(crossword)

\* C19 copy on extend: a call of backtrack keeps the assignment and the slot
\* it was entered with for as long as it is active, whatever the calls it
\* makes do and return; the assignment handed to a new call is the caller's
\* with one more slot bound.
C19_CopyOnExtend ==
    [][ /\ \A k \in (DOMAIN stack) \cap (DOMAIN stack') :
              /\ stack'[k].assignment = stack[k].assignment
              /\ stack'[k].var = stack[k].var
        /\ (Len(stack) >= 1 /\ Len(stack') = Len(stack) + 1) =>
              LET old == stack[Len(stack)].assignment
                  new == stack'[Len(stack')].assignment
              IN  /\ DOMAIN new = DOMAIN old \cup {stack[Len(stack)].var}
                  /\ \A v \in DOMAIN old : new[v] = old[v] ]_vars

\* a recursive call has returned None to a call that binds a slot already and
\* has another candidate to try
C19_Witness ==
    /\ pc = "backtrack"
    /\ returning.kind = "None"
    /\ stack # << >>
    /\ Top.assignment # EmptyAssignment
    /\ Top.values # << >>

====
